---- MODULE Spec2Model ----
(***************************************************************************)
(* MasterX streaming chat: the client stream consumer of AppContext.js     *)
(* (sendMessage / sendPremiumMessage), the submit handler of               *)
(* ChatInterface.js, the session actions of Sidebar.js, and the server     *)
(* stream relay of spec.md section 4.2 (its code, backend/server.py, is    *)
(* not among the sources).                                                 *)
(*                                                                         *)
(* Text is a sequence of tokens.  A wire line is                           *)
(*   "data: " , <opening of the JSON object> , ... , "}" , "\n"            *)
(* and one reader.read() returns any non-empty prefix of the bytes the     *)
(* server has written and the client has not read yet.                    *)
(***************************************************************************)
EXTENDS Integers, Sequences, FiniteSets, TLC

\* ------------------------------------------------------------------ bounds
\* submits that start a request; what then happens to them from outside:
\* frames written and bodies ended by the server, failed calls, clicks in the
\* sidebar and on the error banner
MaxRequests == 2
MaxEvents == 3

Requests == 1..MaxRequests

\* ------------------------------------------------------------- vocabulary
NoVal == "undefined"
NoSeq == <<NoVal>>
FirstSessionId == "s1"
NewSessionId == "s2"
SessionIds == {FirstSessionId, NewSessionId}
Chars == {"a", "b"}
ErrMessage == "upstream failed"
SugVal == <<"Try an example">>
NextVal == "practice"
ModeVal == "socratic"
learningMode == "adaptive"
Inputs == {<<" ", "q">>}

Frame(t, c, s, n, m, e) ==
    [type |-> t, content |-> c, suggestions |-> s, next_steps |-> n,
     mode |-> m, message |-> e]

ChunkFrame(c) == Frame("chunk", c, NoSeq, NoVal, NoVal, NoVal)
CompleteFrame(s, n, m) == Frame("complete", NoSeq, s, n, m, NoVal)
ErrorFrame(e) == Frame("error", NoSeq, NoSeq, NoVal, NoVal, e)
MalformedFrame == Frame("malformed", NoSeq, NoSeq, NoVal, NoVal, NoVal)
Invalid == Frame("invalid", NoSeq, NoSeq, NoVal, NoVal, NoVal)

ChunkFrames == {ChunkFrame(<<c>>) : c \in Chars}
CompleteFrames ==
    {CompleteFrame(NoSeq, NoVal, NoVal), CompleteFrame(SugVal, NextVal, ModeVal)}
ErrorFrames == {ErrorFrame(ErrMessage)}
WireFrames == ChunkFrames \cup CompleteFrames \cup ErrorFrames \cup {MalformedFrame}

\* ------------------------------------------------------------ wire format
\* JSON text of a frame; a malformed frame is a truncated object.
Stringify(f) ==
    CASE f.type = "chunk" -> <<"{chunk:">> \o f.content \o <<"}">>
      [] f.type = "complete" ->
            <<"{complete:">>
            \o (IF f.suggestions = NoSeq THEN <<>> ELSE <<"suggestions">>)
            \o (IF f.next_steps = NoVal THEN <<>> ELSE <<"next_steps">>)
            \o (IF f.mode = NoVal THEN <<>> ELSE <<"mode">>)
            \o <<"}">>
      [] f.type = "error" -> <<"{error:", "message", "}">>
      [] OTHER -> <<"{chunk:", "a">>

Encode(f) == <<"data: ">> \o Stringify(f) \o <<"\n">>

\* JSON.parse(line.slice(6)): the object, or Invalid when it throws.
JSONParse(p) ==
    IF Len(p) < 2 \/ p[Len(p)] # "}" THEN Invalid
    ELSE LET mid == SubSeq(p, 2, Len(p) - 1)
             has(k) == \E i \in 1..Len(mid) : mid[i] = k
         IN  CASE p[1] = "{chunk:" /\ (\A i \in 1..Len(mid) : mid[i] \in Chars) ->
                     ChunkFrame(mid)
               [] p[1] = "{complete:"
                    /\ (\A i \in 1..Len(mid) :
                           mid[i] \in {"suggestions", "next_steps", "mode"}) ->
                     CompleteFrame(IF has("suggestions") THEN SugVal ELSE NoSeq,
                                   IF has("next_steps") THEN NextVal ELSE NoVal,
                                   IF has("mode") THEN ModeVal ELSE NoVal)
               [] p[1] = "{error:" /\ mid = <<"message">> -> ErrorFrame(ErrMessage)
               [] OTHER -> Invalid

\* chunk.split('\n')
RECURSIVE Split(_)
Split(t) ==
    IF \A i \in 1..Len(t) : t[i] # "\n" THEN <<t>>
    ELSE LET i == CHOOSE k \in 1..Len(t) :
                      t[k] = "\n" /\ \A j \in 1..(k - 1) : t[j] # "\n"
         IN  <<SubSeq(t, 1, i - 1)>> \o Split(SubSeq(t, i + 1, Len(t)))

\* line.startsWith('data: ')
StartsWithData(line) == Len(line) > 0 /\ line[1] = "data: "

\* inputMessage.trim()
RECURSIVE Trim(_)
Trim(t) ==
    IF t = <<>> THEN t
    ELSE IF Head(t) = " " THEN Trim(Tail(t))
    ELSE IF t[Len(t)] = " " THEN Trim(SubSeq(t, 1, Len(t) - 1))
    ELSE t

\* --------------------------------------------------------------- messages
Message(sender, text, sid, sug, next, mode) ==
    [sender |-> sender, message |-> text, session_id |-> sid,
     suggestions |-> sug, next_steps |-> next, learning_mode |-> mode]

UserMessage(sid, text) == Message("user", text, sid, NoSeq, NoVal, NoVal)

\* the messages the backend stores for a session (getSessionMessages)
Stored(sid) == <<UserMessage(sid, <<sid>>)>>

\* ------------------------------------------------- appReducer (AppContext)
\* A state record s holds the reducer fields the consumer writes, plus the
\* consumer's local accumulator fullResponse.
ReduceAddMessage(s, m) == [s EXCEPT !.messages = Append(@, m)]
ReduceSetTyping(s, b) == [s EXCEPT !.isTyping = b]
\* variant: SET_STREAMING_MESSAGE replaces the text
ReduceSetStreamingMessageReplaces(s, c) == [s EXCEPT !.streamingMessage = c]
ReduceSetStreamingMessage(s, c) == [s EXCEPT !.streamingMessage = @ \o c]
ReduceClearStreamingMessage(s) == [s EXCEPT !.streamingMessage = <<>>]
ReduceSetError(s, e) == [s EXCEPT !.error = e, !.isLoading = FALSE]

\* ------------------------------------- stream consumer (one reader.read())
\* variant: only the premium consumer keeps the frame's suggestions
AiMessagePremiumSuggestions(fullText, data, sid, premium) ==
    Message("mentor", fullText, sid,
            IF premium /\ data.suggestions # NoSeq THEN data.suggestions ELSE <<>>,
            IF premium THEN data.next_steps ELSE NoVal,
            IF premium
            THEN (IF data.mode = NoVal THEN learningMode ELSE data.mode)
            ELSE NoVal)

\* the mentor message built on a complete frame
AiMessage(fullText, data, sid, premium) ==
    Message("mentor", fullText, sid,
            IF data.suggestions = NoSeq THEN <<>> ELSE data.suggestions,
            IF premium THEN data.next_steps ELSE NoVal,
            IF premium
            THEN (IF data.mode = NoVal THEN learningMode ELSE data.mode)
            ELSE NoVal)

OnChunk(st, data) ==
    ReduceSetStreamingMessage(
        [st EXCEPT !.fullResponse = @ \o data.content], data.content)

\* variant: a complete handler without clearStreamingMessage()
OnCompleteKeepsStream(st, data, sid, premium) ==
    ReduceAddMessage(ReduceSetTyping(st, FALSE),
                     AiMessage(st.fullResponse, data, sid, premium))

OnComplete(st, data, sid, premium) ==
    ReduceClearStreamingMessage(
        ReduceAddMessage(ReduceSetTyping(st, FALSE),
                         AiMessage(st.fullResponse, data, sid, premium)))

\* variant: an error branch without setTyping(false)
OnErrorKeepsTyping(st, data) ==
    ReduceClearStreamingMessage(ReduceSetError(st, data.message))

OnError(st, data) ==
    ReduceClearStreamingMessage(
        ReduceSetError(ReduceSetTyping(st, FALSE), data.message))

\* variant: no inner try/catch, the parse failure reaches the outer catch
OnParseErrorAborts(st) ==
    ReduceSetError(ReduceClearStreamingMessage(ReduceSetTyping(st, FALSE)),
                   "Unexpected end of JSON input")

\* what a line whose payload JSON.parse rejects does: the catch logs it
OnParseError(st) == st

\* the body of `for (const line of lines)`
ProcessLine(st, line, sid, premium) ==
    IF ~StartsWithData(line) THEN st
    ELSE LET data == JSONParse(Tail(line))
         IN  IF data.type = "invalid" THEN OnParseError(st)
             ELSE IF data.type = "chunk" /\ data.content # <<>> THEN OnChunk(st, data)
             ELSE IF data.type = "complete" THEN OnComplete(st, data, sid, premium)
             ELSE IF data.type = "error" THEN OnError(st, data)
             ELSE st

RECURSIVE ProcessLines(_, _, _, _)
ProcessLines(st, lines, sid, premium) ==
    IF lines = <<>> THEN st
    ELSE ProcessLines(ProcessLine(st, Head(lines), sid, premium),
                      Tail(lines), sid, premium)

\* decode + split + loop for one value returned by reader.read()
ProcessRead(st, value, sid, premium) ==
    ProcessLines(st, Split(value), sid, premium)

\* the catch block of sendMessage / sendPremiumMessage
OnThrow(st, msg) ==
    ReduceSetError(ReduceClearStreamingMessage(ReduceSetTyping(st, FALSE)), msg)

\* addMessage(userMessage); setTyping(true); clearStreamingMessage()
BeginSend(st, sid, text) ==
    ReduceClearStreamingMessage(
        ReduceSetTyping(ReduceAddMessage(st, UserMessage(sid, text)), TRUE))

\* ------------------------------------------------------------------ state
VARIABLES
    user, currentSession, sessions, messages, isLoading, error, isTyping,
    streamingMessage,
    inputMessage, useContextAwareness, useAdvancedStreaming,
    pc, stage, rsid, rmsg, fullResponse, body, closed,
    loads, creating,
    sent, appended, terminal, st0, events,
    upstream, produced,
    deleted, gcall, advanced, onboarding, provider

appState == <<user, currentSession, sessions, messages, isLoading, error, isTyping,
              streamingMessage>>
chatLocal == <<inputMessage, useContextAwareness, useAdvancedStreaming>>
handler == <<pc, stage, rsid, rmsg, fullResponse, body, closed>>
sidebar == <<loads, creating>>
history == <<sent, appended, terminal, st0, events>>
relay == <<upstream, produced>>
\* the session store's deletions, the gamification call in progress, the
\* AdvancedStreamingInterface component, the UserOnboarding component and
\* AppProvider with the browser's localStorage
beyond == <<deleted, gcall, advanced, onboarding, provider>>
vars == <<appState, chatLocal, handler, sidebar, history, relay, beyond>>

\* the reducer fields the consumer writes, with request r's accumulator
StateOf(r) ==
    [messages |-> messages, isTyping |-> isTyping,
     streamingMessage |-> streamingMessage, error |-> error,
     isLoading |-> isLoading, fullResponse |-> fullResponse[r]]

\* commit a state record computed for request r
Commit(st, r) ==
    /\ messages' = st.messages
    /\ isTyping' = st.isTyping
    /\ streamingMessage' = st.streamingMessage
    /\ error' = st.error
    /\ isLoading' = st.isLoading
    /\ fullResponse' = [fullResponse EXCEPT ![r] = st.fullResponse]

\* sendPremiumMessage is the first attempt, sendMessage the fallback
Premium(r) == stage[r] = "first"

\* history: st0[r].st is the state in which r's stream opened, kept while
\* nothing but r's own reads has written the reducer state since
NoState == [clean |-> FALSE, st |-> <<>>]
Undisturbed(keep) == [q \in Requests |-> IF q \in keep THEN st0[q] ELSE NoState]

\* one run of startAdvancedStream: where it stands, whether the component
\* instance it belongs to is still mounted, its message prop, the streamContent its
\* handleStreamChunk closed over, the response body, what the server wrote
\* and what the run handed to onStreamComplete
AdvancedNoRun ==
    [pc |-> "unborn", live |-> FALSE, message |-> <<>>, closure |-> <<>>,
     body |-> <<>>, closed |-> FALSE, sent |-> <<>>, completed |-> <<>>]

\* AdvancedStreamingInterface before it is rendered: whether it is mounted,
\* its useState values (streamContent, isStreaming), the message its effect
\* last ran for, and the runs of startAdvancedStream so far
AdvancedUnmounted ==
    [mounted |-> FALSE, streamContent |-> <<>>, isStreaming |-> FALSE,
     message |-> <<>>, runs |-> 0, run |-> [k \in 1..MaxRequests |-> AdvancedNoRun]]

\* the gamification calls of the context: the call awaiting its fetch, the
\* reducer's gamificationData, and what the last call's promise settled with
GamificationIdle ==
    [pending |-> NoVal, gamificationData |-> NoVal, settled |-> "nothing"]

\* UserOnboarding as mounted: the wizard's step, whether each step's fields
\* are valid (name and email, learning goals, subjects), whether the general
\* error is shown; where handleComplete stands, the formData it closed over,
\* its attempt counter, how many times createUser has succeeded in this run,
\* what createUser and getUserByEmail gave in the current attempt, and every
\* createSession call made (with what the attempt had been given)
OnboardingForm ==
    [step |-> 1, identity |-> FALSE, goals |-> FALSE, subjects |-> FALSE,
     general |-> FALSE, pc |-> "form", userData |-> NoVal, attempt |-> 0,
     created |-> 0, createdUser |-> NoVal, lookup |-> "none",
     lookupUser |-> NoVal, calls |-> <<>>]

\* JSON.stringify(state.user): the id between braces, and the braces
\* alone for a user object without id
StringifyUser(u) == IF u = "anonymous" THEN <<"{", "}">> ELSE <<"{", u, "}">>

\* what localStorage holds under 'masterx_user' for state.user u once the
\* saving effect has run: the set is empty when the item is absent
StoredFor(u) == IF u = NoVal THEN {} ELSE {StringifyUser(u)}

\* AppProvider mounted with its effects run for user u: the item stored, the
\* user the saving effect last ran for, the item found at mount and whether
\* the loadUserSessions call of the mount is pending
ProviderSettled(u) ==
    [mounted |-> TRUE, masterx_user |-> StoredFor(u), effectUser |-> u,
     found |-> StoredFor(u), sessionsCall |-> "none"]

\* the state after construction with user u, current session cs and the
\* sessions ss loaded
InitAll(u, cs, ss, p) ==
    /\ provider = p
    /\ deleted = {}
    /\ gcall = GamificationIdle
    /\ advanced = AdvancedUnmounted
    /\ onboarding = OnboardingForm
    /\ user = u
    /\ currentSession = cs
    /\ sessions = ss
    /\ messages = <<>>
    /\ isLoading = FALSE
    /\ error = NoVal
    /\ isTyping = FALSE
    /\ streamingMessage = <<>>
    /\ inputMessage = <<>>
    /\ useContextAwareness = TRUE
    /\ useAdvancedStreaming = FALSE
    /\ pc = [r \in Requests |-> "idle"]
    /\ stage = [r \in Requests |-> "first"]
    /\ rsid = [r \in Requests |-> NoVal]
    /\ rmsg = [r \in Requests |-> <<>>]
    /\ fullResponse = [r \in Requests |-> <<>>]
    /\ body = [r \in Requests |-> <<>>]
    /\ closed = [r \in Requests |-> FALSE]
    /\ loads = {}
    /\ creating = FALSE
    /\ sent = [r \in Requests |-> <<>>]
    /\ appended = [r \in Requests |-> <<>>]
    /\ terminal = [r \in Requests |-> FALSE]
    /\ st0 = [r \in Requests |-> NoState]
    /\ events = 0
    /\ upstream = [r \in Requests |-> "none"]
    /\ produced = [r \in Requests |-> <<>>]

InitWith(u, cs, ss) == InitAll(u, cs, ss, ProviderSettled(u))

\* the chat as it is once onboarding has set the user and the first session
Init == InitWith("u1", FirstSessionId, {FirstSessionId})

\* ------------------------------------------- handleSendMessage (ChatInterface)
\* the guard of handleSendMessage; request slots are taken in order
Accepted(r) ==
    /\ pc[r] = "idle"
    /\ \A q \in Requests : q < r => pc[q] # "idle"
    /\ user # NoVal
    /\ ~(Trim(inputMessage) = <<>> \/ currentSession = NoVal \/ isTyping)

\* a stream of request r begins: sendPremiumMessage or sendMessage up to its
\* `await fetch`
OpenStream(r, st, sid, text, stg) ==
    /\ Commit(BeginSend(st, sid, text), r)
    /\ pc' = [pc EXCEPT ![r] = "fetch"]
    /\ stage' = [stage EXCEPT ![r] = stg]
    /\ body' = [body EXCEPT ![r] = <<>>]
    /\ closed' = [closed EXCEPT ![r] = FALSE]
    /\ sent' = [sent EXCEPT ![r] = <<>>]
    /\ appended' = [appended EXCEPT ![r] = <<>>]
    /\ terminal' = [terminal EXCEPT ![r] = FALSE]
    /\ st0' = Undisturbed({})

\* useContextAwareness: sendContextAwareMessage up to `await analyzeContext`
SubmitContextAware(r) ==
    /\ Accepted(r)
    /\ useContextAwareness
    /\ inputMessage' = <<>>
    /\ pc' = [pc EXCEPT ![r] = "analyze"]
    /\ rsid' = [rsid EXCEPT ![r] = currentSession]
    /\ rmsg' = [rmsg EXCEPT ![r] = Trim(inputMessage)]
    /\ UNCHANGED <<appState, useContextAwareness, useAdvancedStreaming, stage,
                   fullResponse, body, closed, sidebar, history, relay, beyond>>

\* useAdvancedStreaming: the handler clears the input and returns
SubmitAdvanced ==
    /\ \E r \in Requests : Accepted(r)
    /\ ~useContextAwareness
    /\ useAdvancedStreaming
    /\ inputMessage' = <<>>
    /\ UNCHANGED <<appState, useContextAwareness, useAdvancedStreaming, handler,
                   sidebar, history, relay, beyond>>

\* otherwise: sendPremiumMessage up to `await fetch`
SubmitPremium(r) ==
    /\ Accepted(r)
    /\ ~useContextAwareness
    /\ ~useAdvancedStreaming
    /\ inputMessage' = <<>>
    /\ rsid' = [rsid EXCEPT ![r] = currentSession]
    /\ rmsg' = [rmsg EXCEPT ![r] = Trim(inputMessage)]
    /\ OpenStream(r, StateOf(r), currentSession, Trim(inputMessage), "first")
    /\ UNCHANGED <<user, currentSession, sessions, useContextAwareness,
                   useAdvancedStreaming, sidebar, events, relay, beyond>>

\* analyzeContext returns (it catches its own errors)
AnalyzeDone(r) ==
    /\ pc[r] = "analyze"
    /\ pc' = [pc EXCEPT ![r] = "post"]
    /\ UNCHANGED <<appState, chatLocal, stage, rsid, rmsg, fullResponse, body,
                   closed, sidebar, history, relay, beyond>>

\* POST /chat/premium-context answers: onMessage adds the mentor message
ContextReply ==
    Message("mentor", <<"r">>, NoVal, SugVal, NextVal, "context_aware")

PostOk(r) ==
    /\ pc[r] = "post"
    /\ pc' = [pc EXCEPT ![r] = "done"]
    /\ messages' = Append(messages, ContextReply)
    /\ st0' = Undisturbed({})
    /\ UNCHANGED <<user, currentSession, sessions, isLoading, error, isTyping,
                   streamingMessage, chatLocal, stage, rsid, rmsg, fullResponse,
                   body, closed, sidebar, sent, appended, terminal, events, relay, beyond>>

\* the POST fails: the handler's catch falls back to sendMessage
PostFail(r) ==
    /\ pc[r] = "post"
    /\ events < MaxEvents
    /\ events' = events + 1
    /\ OpenStream(r, StateOf(r), rsid[r], rmsg[r], "fallback")
    /\ UNCHANGED <<user, currentSession, sessions, chatLocal, rsid, rmsg, sidebar,
                   relay, beyond>>

\* a stream's function has returned or thrown: its locals, its reader and
\* the history kept about it are gone
Forget(r) ==
    /\ fullResponse' = [fullResponse EXCEPT ![r] = <<>>]
    /\ body' = [body EXCEPT ![r] = <<>>]
    /\ closed' = [closed EXCEPT ![r] = FALSE]
    /\ sent' = [sent EXCEPT ![r] = <<>>]
    /\ appended' = [appended EXCEPT ![r] = <<>>]
    /\ terminal' = [terminal EXCEPT ![r] = FALSE]

\* what a throw inside sendPremiumMessage / sendMessage leads to: the catch
\* block, then the handler's fallback to sendMessage after a first attempt
Thrown(r, msg) ==
    LET st == OnThrow(StateOf(r), msg)
    IN  IF Premium(r)
        THEN OpenStream(r, st, rsid[r], rmsg[r], "fallback")
        ELSE /\ Commit([st EXCEPT !.fullResponse = <<>>], r)
             /\ pc' = [pc EXCEPT ![r] = "done"]
             /\ st0' = Undisturbed({})
             /\ body' = [body EXCEPT ![r] = <<>>]
             /\ closed' = [closed EXCEPT ![r] = FALSE]
             /\ sent' = [sent EXCEPT ![r] = <<>>]
             /\ appended' = [appended EXCEPT ![r] = <<>>]
             /\ terminal' = [terminal EXCEPT ![r] = FALSE]
             /\ UNCHANGED stage

FailMessage(r) ==
    IF Premium(r) THEN "Failed to send premium message" ELSE "Failed to send message"

\* fetch resolves with response.ok: getReader(), let fullResponse = ''
ResponseOk(r) ==
    /\ pc[r] = "fetch"
    /\ pc' = [pc EXCEPT ![r] = "reading"]
    /\ fullResponse' = [fullResponse EXCEPT ![r] = <<>>]
    /\ st0' = [st0 EXCEPT ![r] =
           [clean |-> TRUE, st |-> [StateOf(r) EXCEPT !.fullResponse = <<>>]]]
    /\ UNCHANGED <<appState, chatLocal, stage, rsid, rmsg, body, closed, sidebar,
                   sent, appended, terminal, events>>

FetchOk(r) == ResponseOk(r) /\ UNCHANGED <<relay, beyond>>

\* variant: no `if (!response.ok) throw`, the error body is read as a stream
FetchFailIgnored(r) ==
    /\ events < MaxEvents
    /\ events' = events + 1
    /\ pc[r] = "fetch"
    /\ pc' = [pc EXCEPT ![r] = "reading"]
    /\ UNCHANGED <<appState, chatLocal, stage, rsid, rmsg, fullResponse, body,
                   closed, sidebar, sent, appended, terminal, st0, relay, beyond>>

\* fetch resolves with !response.ok, or rejects
FetchFail(r) ==
    /\ pc[r] = "fetch"
    /\ events < MaxEvents
    /\ events' = events + 1
    /\ Thrown(r, FailMessage(r))
    /\ UNCHANGED <<user, currentSession, sessions, chatLocal, rsid, rmsg, sidebar,
                   relay, beyond>>

\* the frames (complete or error) among the lines of a read value
HasTerminal(value) ==
    \E i \in 1..Len(Split(value)) :
        /\ StartsWithData(Split(value)[i])
        /\ JSONParse(Tail(Split(value)[i])).type \in {"complete", "error"}

\* reader.read() resolves with the first n pending tokens; the loop runs
Read(r, n) ==
    /\ pc[r] = "reading"
    /\ n \in 1..Len(body[r])
    /\ LET value == SubSeq(body[r], 1, n)
           st == ProcessRead(StateOf(r), value, rsid[r], Premium(r))
       IN  /\ Commit(st, r)
           /\ appended' = [appended EXCEPT ![r] =
                  @ \o SubSeq(st.messages, Len(messages) + 1, Len(st.messages))]
           /\ terminal' = [terminal EXCEPT ![r] = @ \/ HasTerminal(value)]
    /\ body' = [body EXCEPT ![r] = SubSeq(@, n + 1, Len(@))]
    /\ st0' = Undisturbed({r})
    /\ UNCHANGED <<user, currentSession, sessions, chatLocal, pc, stage, rsid, rmsg,
                   closed, sidebar, sent, events, relay, beyond>>

\* reader.read() resolves with done: the loop breaks, fullResponse is returned
ReadDone(r) ==
    /\ pc[r] = "reading"
    /\ body[r] = <<>>
    /\ closed[r]
    /\ pc' = [pc EXCEPT ![r] = "done"]
    /\ Forget(r)
    /\ st0' = [st0 EXCEPT ![r] = NoState]
    /\ UNCHANGED <<appState, chatLocal, stage, rsid, rmsg, sidebar, events, relay, beyond>>

\* reader.read() rejects (transport failure)
ReadThrow(r) ==
    /\ pc[r] = "reading"
    /\ events < MaxEvents
    /\ events' = events + 1
    /\ Thrown(r, "network error")
    /\ UNCHANGED <<user, currentSession, sessions, chatLocal, rsid, rmsg, sidebar,
                   relay, beyond>>

\* ------------------------------------------------- the response body (input)
\* one more frame reaches the body of r's response
Emit(r, f) ==
    /\ pc[r] = "reading"
    /\ ~closed[r]
    /\ events < MaxEvents
    /\ body' = [body EXCEPT ![r] = @ \o Encode(f)]
    /\ sent' = [sent EXCEPT ![r] = Append(@, f)]
    /\ events' = events + 1
    /\ UNCHANGED <<appState, chatLocal, pc, stage, rsid, rmsg, fullResponse,
                   sidebar, appended, terminal, st0>>

\* any server: it writes any frame at any time
ServerWrite(r, f) == Emit(r, f) /\ UNCHANGED <<closed, relay, beyond>>

\* the server ends the body
ServerClose(r) ==
    /\ pc[r] = "reading"
    /\ ~closed[r]
    /\ events < MaxEvents
    /\ events' = events + 1
    /\ closed' = [closed EXCEPT ![r] = TRUE]
    /\ UNCHANGED <<appState, chatLocal, pc, stage, rsid, rmsg, fullResponse, body,
                   sidebar, sent, appended, terminal, st0, relay, beyond>>

\* ------------------------------------------------------- ChatInterface input
\* the chat view is rendered (a user and a current session); the model follows
\* the input and the two switches while a request slot is left to use them
ChatShown ==
    /\ user # NoVal
    /\ currentSession # NoVal
    /\ \E r \in Requests : pc[r] = "idle"

\* onChange of the input and the quick-action buttons (disabled while typing)
TypeInput(t) ==
    /\ ChatShown
    /\ ~isTyping
    /\ inputMessage # t
    /\ inputMessage' = t
    /\ UNCHANGED <<appState, useContextAwareness, useAdvancedStreaming, handler,
                   sidebar, history, relay, beyond>>

ToggleContextAwareness ==
    /\ ChatShown
    /\ useContextAwareness' = ~useContextAwareness
    /\ UNCHANGED <<appState, inputMessage, useAdvancedStreaming, handler, sidebar,
                   history, relay, beyond>>

ToggleAdvancedStreaming ==
    /\ ChatShown
    /\ useAdvancedStreaming' = ~useAdvancedStreaming
    /\ UNCHANGED <<appState, inputMessage, useContextAwareness, handler, sidebar,
                   history, relay, beyond>>

\* ------------------------------------------------------------------ Sidebar
\* handleSessionSelect up to `await loadSessionMessages`
SelectSession(s) ==
    /\ user # NoVal
    /\ events < MaxEvents
    /\ s \in sessions
    /\ currentSession' = s
    /\ loads' = loads \cup {s}
    /\ events' = events + 1
    /\ UNCHANGED <<user, sessions, messages, isLoading, error, isTyping,
                   streamingMessage, chatLocal, handler, creating, sent, appended,
                   terminal, st0, relay, beyond>>

\* loadSessionMessages: getSessionMessages answers
LoadOk(s) ==
    /\ s \in loads
    /\ loads' = loads \ {s}
    /\ messages' = Stored(s)
    /\ st0' = Undisturbed({})
    /\ UNCHANGED <<user, currentSession, sessions, isLoading, error, isTyping,
                   streamingMessage, chatLocal, handler, creating, sent,
                   appended, terminal, events, relay, beyond>>

\* loadSessionMessages: getSessionMessages fails
LoadFail(s) ==
    /\ s \in loads
    /\ events < MaxEvents
    /\ events' = events + 1
    /\ loads' = loads \ {s}
    /\ error' = "Resource not found"
    /\ isLoading' = FALSE
    /\ st0' = Undisturbed({})
    /\ UNCHANGED <<user, currentSession, sessions, messages, isTyping,
                   streamingMessage, chatLocal, handler, creating, sent,
                   appended, terminal, relay, beyond>>

\* handleNewSession up to `await api.createSession`
NewSession ==
    /\ user # NoVal
    /\ events < MaxEvents
    /\ ~creating
    /\ NewSessionId \notin sessions
    /\ creating' = TRUE
    /\ isLoading' = TRUE
    /\ events' = events + 1
    /\ st0' = Undisturbed({})
    /\ UNCHANGED <<user, currentSession, sessions, messages, error, isTyping,
                   streamingMessage, chatLocal, handler, loads, sent, appended,
                   terminal, relay, beyond>>

\* createSession: the session is created
NewSessionOk ==
    /\ creating
    /\ creating' = FALSE
    /\ sessions' = sessions \cup {NewSessionId}
    /\ currentSession' = NewSessionId
    /\ messages' = <<>>
    /\ isLoading' = FALSE
    /\ st0' = Undisturbed({})
    /\ UNCHANGED <<user, error, isTyping, streamingMessage, chatLocal, handler,
                   loads, sent, appended, terminal, events, relay, beyond>>

\* createSession: the call fails
NewSessionFail ==
    /\ creating
    /\ events < MaxEvents
    /\ events' = events + 1
    /\ creating' = FALSE
    /\ error' = "Server error. Please try again later."
    /\ isLoading' = FALSE
    /\ st0' = Undisturbed({})
    /\ UNCHANGED <<user, currentSession, sessions, messages, isTyping,
                   streamingMessage, chatLocal, handler, loads, sent,
                   appended, terminal, relay, beyond>>

\* handleLogout, confirmed: the state is reset and the item is removed; App
\* then renders a new UserOnboarding
Logout ==
    /\ user # NoVal
    /\ events < MaxEvents
    /\ events' = events + 1
    /\ user' = NoVal
    /\ currentSession' = NoVal
    /\ sessions' = {}
    /\ messages' = <<>>
    /\ provider' = [provider EXCEPT !.masterx_user = {}]
    /\ onboarding' = IF onboarding.pc \in {"form", "failed", "done"}
                     THEN OnboardingForm ELSE onboarding
    /\ st0' = Undisturbed({})
    /\ UNCHANGED <<isLoading, error, isTyping, streamingMessage, chatLocal, handler,
                   loads, creating, sent, appended, terminal, relay, deleted,
                   gcall, advanced>>

\* the error banner's close button: setError(null)
DismissError ==
    /\ user # NoVal
    /\ events < MaxEvents
    /\ events' = events + 1
    /\ error # NoVal
    /\ error' = NoVal
    /\ isLoading' = FALSE
    /\ st0' = Undisturbed({})
    /\ UNCHANGED <<user, currentSession, sessions, messages, isTyping,
                   streamingMessage, chatLocal, handler, sidebar, sent, appended,
                   terminal, relay, beyond>>

\* ------------------------------------------------------------ specification
ClientStep ==
    \/ \E r \in Requests : SubmitContextAware(r)
    \/ SubmitAdvanced
    \/ \E r \in Requests : SubmitPremium(r)
    \/ \E r \in Requests : AnalyzeDone(r)
    \/ \E r \in Requests : PostOk(r)
    \/ \E r \in Requests : PostFail(r)
    \/ \E r \in Requests : FetchFail(r)
    \/ \E r \in Requests : \E n \in 1..Len(body[r]) : Read(r, n)
    \/ \E r \in Requests : ReadDone(r)
    \/ \E r \in Requests : ReadThrow(r)
    \/ \E t \in Inputs : TypeInput(t)
    \/ ToggleContextAwareness
    \/ ToggleAdvancedStreaming
    \/ \E s \in SessionIds : SelectSession(s)
    \/ \E s \in SessionIds : LoadOk(s)
    \/ \E s \in SessionIds : LoadFail(s)
    \/ NewSession
    \/ NewSessionOk
    \/ NewSessionFail
    \/ Logout
    \/ DismissError

Next ==
    \/ ClientStep
    \/ \E r \in Requests : FetchOk(r)
    \/ \E r \in Requests : \E f \in WireFrames : ServerWrite(r, f)
    \/ \E r \in Requests : ServerClose(r)

Spec == Init /\ [][Next]_vars

\* the chat without the sidebar: messages is only appended to
NextTurns ==
    \/ \E r \in Requests : SubmitContextAware(r)
    \/ SubmitAdvanced
    \/ \E r \in Requests : SubmitPremium(r)
    \/ \E r \in Requests : AnalyzeDone(r)
    \/ \E r \in Requests : PostOk(r)
    \/ \E r \in Requests : PostFail(r)
    \/ \E r \in Requests : FetchOk(r)
    \/ \E r \in Requests : FetchFail(r)
    \/ \E r \in Requests : \E f \in WireFrames : ServerWrite(r, f)
    \/ \E r \in Requests : ServerClose(r)
    \/ \E r \in Requests : \E n \in 1..Len(body[r]) : Read(r, n)
    \/ \E r \in Requests : ReadDone(r)
    \/ \E r \in Requests : ReadThrow(r)
    \/ \E t \in Inputs : TypeInput(t)
    \/ ToggleContextAwareness
    \/ ToggleAdvancedStreaming
    \/ DismissError

SpecTurns == Init /\ [][NextTurns]_vars

\* the sidebar of a user who has two sessions: selections and their loads
InitSidebar == InitWith("u1", FirstSessionId, SessionIds)

NextSidebar ==
    \/ \E s \in SessionIds : SelectSession(s)
    \/ \E s \in SessionIds : LoadOk(s)
    \/ \E s \in SessionIds : LoadFail(s)
    \/ \E t \in Inputs : TypeInput(t)
    \/ ToggleContextAwareness
    \/ DismissError

SpecSidebar == InitSidebar /\ [][NextSidebar]_vars

\* the event loop runs a stream's continuation whenever its reader.read() can
\* resolve: with bytes pending, or with done once the body has ended; nothing
\* obliges the server to write or to end the body
ReadResolves ==
    \/ \E r \in Requests : \E n \in 1..Len(body[r]) : Read(r, n)
    \/ \E r \in Requests : ReadDone(r)

SpecLive == Init /\ [][Next]_vars /\ WF_vars(ReadResolves)

\* ------------------------------------------- stream relay (spec.md, 4.2)
\* upstream[r]: the relay's upstream call for r's response; produced[r]: the
\* fragments that call has produced
\* the session exists: the relay opens the upstream call and answers 200
\* variant: a relay that opens the upstream call without looking the session up
RelayOpenUnchecked(r) ==
    /\ ResponseOk(r)
    /\ upstream' = [upstream EXCEPT ![r] = "open"]
    /\ produced' = [produced EXCEPT ![r] = <<>>]
    /\ UNCHANGED beyond

RelayOpen(r) ==
    /\ rsid[r] \notin deleted
    /\ ResponseOk(r)
    /\ upstream' = [upstream EXCEPT ![r] = "open"]
    /\ produced' = [produced EXCEPT ![r] = <<>>]
    /\ UNCHANGED beyond

\* getSession answers NotFound: a 404 instead of the stream, no upstream call
RelayReject(r) ==
    /\ pc[r] = "fetch"
    /\ rsid[r] \in deleted
    /\ Thrown(r, FailMessage(r))
    /\ upstream' = [upstream EXCEPT ![r] = "rejected"]
    /\ UNCHANGED <<user, currentSession, sessions, chatLocal, rsid, rmsg, sidebar,
                   events, produced, beyond>>

\* the client's connection is gone: the relay cancels the upstream call
RelayCancel(r) ==
    /\ upstream[r] = "open"
    /\ pc[r] # "reading"
    /\ upstream' = [upstream EXCEPT ![r] = "canceled"]
    /\ UNCHANGED <<appState, chatLocal, handler, sidebar, history, produced,
                   beyond>>

\* the session store loses a session (deleted by the CRUD backend)
SessionDeleted(s) ==
    /\ s \notin deleted
    /\ events < MaxEvents
    /\ events' = events + 1
    /\ deleted' = deleted \cup {s}
    /\ UNCHANGED <<appState, chatLocal, handler, sidebar, sent, appended, terminal,
                   st0, relay, gcall, advanced, onboarding, provider>>

\* a fragment arrives from upstream: one chunk frame, at once
RelayChunk(r, c) ==
    /\ upstream[r] = "open"
    /\ Emit(r, ChunkFrame(<<c>>))
    /\ produced' = [produced EXCEPT ![r] = Append(@, c)]
    /\ UNCHANGED <<closed, upstream, beyond>>

\* the upstream sequence ends: the complete frame with the derived metadata,
\* then the end of the body
RelayComplete(r) ==
    /\ upstream[r] = "open"
    /\ Emit(r, CompleteFrame(SugVal, NextVal, ModeVal))
    /\ closed' = [closed EXCEPT ![r] = TRUE]
    /\ upstream' = [upstream EXCEPT ![r] = "ended"]
    /\ UNCHANGED <<produced, beyond>>

\* variant: a relay that reports the failure and keeps the stream going
RelayErrorKeepsOpen(r) ==
    /\ upstream[r] = "open"
    /\ Emit(r, ErrorFrame(ErrMessage))
    /\ UNCHANGED <<closed, upstream, produced, beyond>>

\* the upstream sequence fails: the error frame, then the end of the body
RelayError(r) ==
    /\ upstream[r] = "open"
    /\ Emit(r, ErrorFrame(ErrMessage))
    /\ closed' = [closed EXCEPT ![r] = TRUE]
    /\ upstream' = [upstream EXCEPT ![r] = "failed"]
    /\ UNCHANGED <<produced, beyond>>

NextE2E ==
    \/ ClientStep
    \/ \E s \in SessionIds : SessionDeleted(s)
    \/ \E r \in Requests : RelayOpen(r)
    \/ \E r \in Requests : RelayReject(r)
    \/ \E r \in Requests : \E c \in Chars : RelayChunk(r, c)
    \/ \E r \in Requests : RelayComplete(r)
    \/ \E r \in Requests : RelayError(r)
    \/ \E r \in Requests : RelayCancel(r)

SpecE2E == Init /\ [][NextE2E]_vars

\* ------------------------------------------------ AdvancedStreamingInterface
\* everything but the component and the two ChatInterface values that render it
besideAdvanced ==
    <<appState, useContextAwareness, handler, sidebar, history, relay, deleted, provider,
      gcall, onboarding>>

AdvancedRuns == 1..MaxRequests

\* ChatInterface renders the component
AdvancedRendered ==
    useAdvancedStreaming /\ inputMessage # <<>> /\ currentSession # NoVal

\* a render has changed the effect's dependencies: the effect runs before
\* anything else does
AdvancedEffectPending ==
    AdvancedRendered /\ (~advanced.mounted \/ advanced.message # inputMessage)

\* the messages typed while the component is in use
AdvancedInputs == {<<" ", "q">>, <<"q", "a">>}

\* the frames written to a run of the component
AdvancedFrames ==
    ChunkFrames \cup {CompleteFrame(NoSeq, NoVal, NoVal), ErrorFrame(ErrMessage),
                      MalformedFrame}

\* frames written to all runs so far
RECURSIVE AdvancedWritten(_)
AdvancedWritten(k) ==
    IF k = 0 THEN 0 ELSE Len(advanced.run[k].sent) + AdvancedWritten(k - 1)

\* handleStreamChunk, as run k's loop holds it: streamContent in the complete
\* case is the value of the render that started the run; the setters of an
\* unmounted instance do nothing; onStreamComplete is ChatInterface's, which
\* switches advanced streaming off and empties the input: the component
\* unmounts
HandleStreamChunk(a, k, data) ==
    CASE data.type = "chunk" ->
             IF a.run[k].live THEN [a EXCEPT !.streamContent = @ \o data.content]
             ELSE a
      [] data.type = "complete" ->
             [a EXCEPT !.isStreaming = IF a.run[k].live THEN FALSE ELSE @,
                       !.mounted = FALSE,
                       !.run = [j \in AdvancedRuns |->
                                  IF j = k
                                  THEN [a.run[j] EXCEPT
                                          !.live = FALSE,
                                          !.completed = Append(@, a.run[k].closure)]
                                  ELSE [a.run[j] EXCEPT !.live = FALSE]]]
      [] data.type = "error" ->
             IF a.run[k].live THEN [a EXCEPT !.isStreaming = FALSE] ELSE a
      [] OTHER -> a

AdvancedLine(a, k, line) ==
    IF ~StartsWithData(line) THEN a
    ELSE LET data == JSONParse(Tail(line))
         IN  IF data.type = "invalid" THEN a ELSE HandleStreamChunk(a, k, data)

RECURSIVE AdvancedLines(_, _, _)
AdvancedLines(a, k, lines) ==
    IF lines = <<>> THEN a
    ELSE AdvancedLines(AdvancedLine(a, k, Head(lines)), k, Tail(lines))

\* the effect runs for a new message (its cleanup closes eventSourceRef.current,
\* which is never assigned): startAdvancedStream up to its first fetch
AdvancedStart ==
    /\ AdvancedEffectPending
    /\ advanced.runs < MaxRequests
    /\ advanced' =
         [advanced EXCEPT
            !.mounted = TRUE, !.streamContent = <<>>, !.isStreaming = TRUE,
            !.message = inputMessage, !.runs = @ + 1,
            !.run[advanced.runs + 1] =
                [AdvancedNoRun EXCEPT
                   !.pc = "session", !.live = TRUE, !.message = inputMessage,
                   !.closure = IF advanced.mounted THEN advanced.streamContent
                               ELSE <<>>]]
    /\ UNCHANGED <<besideAdvanced, inputMessage, useAdvancedStreaming>>

\* POST /api/streaming/session answers ok
AdvancedSessionOk(k) ==
    /\ ~AdvancedEffectPending
    /\ advanced.run[k].pc = "session"
    /\ advanced' = [advanced EXCEPT !.run[k].pc = "chat"]
    /\ UNCHANGED <<besideAdvanced, inputMessage, useAdvancedStreaming>>

\* POST /api/streaming/{id}/chat answers ok: getReader()
AdvancedChatOk(k) ==
    /\ ~AdvancedEffectPending
    /\ advanced.run[k].pc = "chat"
    /\ advanced' = [advanced EXCEPT !.run[k].pc = "reading"]
    /\ UNCHANGED <<besideAdvanced, inputMessage, useAdvancedStreaming>>

\* a fetch fails, answers not ok, or reader.read() rejects: the catch
AdvancedThrow(k) ==
    /\ ~AdvancedEffectPending
    /\ advanced.run[k].pc \in {"session", "chat", "reading"}
    /\ advanced' = [advanced EXCEPT
                      !.run[k].pc = "ended", !.run[k].body = <<>>,
                      !.isStreaming = IF advanced.run[k].live THEN FALSE ELSE @]
    /\ UNCHANGED <<besideAdvanced, inputMessage, useAdvancedStreaming>>

\* the server writes one more frame to the body of run k
AdvancedServerWrite(k, f) ==
    /\ ~AdvancedEffectPending
    /\ advanced.run[k].pc = "reading"
    /\ ~advanced.run[k].closed
    /\ AdvancedWritten(MaxRequests) < MaxEvents
    /\ advanced' = [advanced EXCEPT !.run[k].body = @ \o Encode(f),
                                    !.run[k].sent = Append(@, f)]
    /\ UNCHANGED <<besideAdvanced, inputMessage, useAdvancedStreaming>>

\* the server ends the body of run k
AdvancedServerClose(k) ==
    /\ ~AdvancedEffectPending
    /\ advanced.run[k].pc = "reading"
    /\ ~advanced.run[k].closed
    /\ advanced' = [advanced EXCEPT !.run[k].closed = TRUE]
    /\ UNCHANGED <<besideAdvanced, inputMessage, useAdvancedStreaming>>

\* run k's reader.read() resolves with the first n pending tokens; the loop
\* runs, and a complete frame reaches ChatInterface's onStreamComplete
AdvancedRead(k, n) ==
    /\ ~AdvancedEffectPending
    /\ advanced.run[k].pc = "reading"
    /\ n \in 1..Len(advanced.run[k].body)
    /\ LET value == SubSeq(advanced.run[k].body, 1, n)
           a == AdvancedLines(advanced, k, Split(value))
       IN  /\ advanced' = [a EXCEPT !.run[k].body = SubSeq(@, n + 1, Len(@))]
           /\ IF Len(a.run[k].completed) > Len(advanced.run[k].completed)
              THEN useAdvancedStreaming' = FALSE /\ inputMessage' = <<>>
              ELSE UNCHANGED <<useAdvancedStreaming, inputMessage>>
    /\ UNCHANGED besideAdvanced

\* run k's reader.read() resolves with done
AdvancedReadDone(k) ==
    /\ ~AdvancedEffectPending
    /\ advanced.run[k].pc = "reading"
    /\ advanced.run[k].body = <<>>
    /\ advanced.run[k].closed
    /\ advanced' = [advanced EXCEPT !.run[k].pc = "ended"]
    /\ UNCHANGED <<besideAdvanced, inputMessage, useAdvancedStreaming>>

\* the chat with advanced streaming in use: the message is typed and retyped
\* while runs may be started, the switch is only turned on
NextAdvanced ==
    \/ \E t \in AdvancedInputs :
           ~AdvancedEffectPending /\ advanced.runs < MaxRequests /\ TypeInput(t)
    \/ (/\ ~AdvancedEffectPending /\ advanced.runs < MaxRequests
        /\ ~useAdvancedStreaming /\ ToggleAdvancedStreaming)
    \/ AdvancedStart
    \/ \E k \in AdvancedRuns : AdvancedSessionOk(k)
    \/ \E k \in AdvancedRuns : AdvancedChatOk(k)
    \/ \E k \in AdvancedRuns : AdvancedThrow(k)
    \/ \E k \in AdvancedRuns : \E f \in AdvancedFrames : AdvancedServerWrite(k, f)
    \/ \E k \in AdvancedRuns : AdvancedServerClose(k)
    \/ \E k \in AdvancedRuns :
           \E n \in 1..Len(advanced.run[k].body) : AdvancedRead(k, n)
    \/ \E k \in AdvancedRuns : AdvancedReadDone(k)

SpecAdvanced == Init /\ [][NextAdvanced]_vars

\* ------------------------------- handleSendMessage in each of its modes
\* the component is no longer rendered: its instance and its state are gone,
\* the runs it started go on
AdvancedUnmount(a) ==
    [a EXCEPT !.mounted = FALSE,
              !.run = [j \in AdvancedRuns |-> [a.run[j] EXCEPT !.live = FALSE]]]

\* handleSendMessage with useAdvancedStreaming: the input is emptied and the
\* handler returns; ChatInterface no longer renders AdvancedStreamingInterface
SubmitAdvancedRendered ==
    /\ ~AdvancedEffectPending
    /\ \E r \in Requests : Accepted(r)
    /\ ~useContextAwareness
    /\ useAdvancedStreaming
    /\ inputMessage' = <<>>
    /\ advanced' = AdvancedUnmount(advanced)
    /\ UNCHANGED <<besideAdvanced, useAdvancedStreaming>>

\* the submits of the chat in every combination of the two switches, with
\* the fetches that lead to the chat request of each mode
NextSubmit ==
    \/ \E t \in AdvancedInputs :
           ~AdvancedEffectPending /\ advanced.runs < MaxRequests /\ TypeInput(t)
    \/ (/\ ~AdvancedEffectPending /\ advanced.runs < MaxRequests
        /\ ToggleAdvancedStreaming)
    \/ ~AdvancedEffectPending /\ ToggleContextAwareness
    \/ AdvancedStart
    \/ \E k \in AdvancedRuns : AdvancedSessionOk(k)
    \/ \E k \in AdvancedRuns : AdvancedChatOk(k)
    \/ \E k \in AdvancedRuns : AdvancedThrow(k)
    \/ SubmitAdvancedRendered
    \/ \E r \in Requests : ~AdvancedRendered /\ SubmitContextAware(r)
    \/ \E r \in Requests : ~AdvancedRendered /\ SubmitPremium(r)
    \/ \E r \in Requests : AnalyzeDone(r)
    \/ \E r \in Requests : PostOk(r)

\* a pending analyzeContext call and a pending streaming-session fetch are
\* answered or fail (axios and fetch settle)
SubmitSettles ==
    \/ \E r \in Requests : AnalyzeDone(r)
    \/ \E k \in AdvancedRuns : AdvancedSessionOk(k)
    \/ \E k \in AdvancedRuns : AdvancedThrow(k)

SpecSubmit == Init /\ [][NextSubmit]_vars /\ WF_vars(SubmitSettles)

\* ------------------------------------------------------- gamification calls
GamificationCalls ==
    {"loadGamificationData", "recordSessionCompletion", "recordConceptMastery"}

\* the message each call's catch hands to setError
GamificationError(c) ==
    CASE c = "loadGamificationData" -> "Failed to load gamification data"
      [] c = "recordSessionCompletion" -> "Failed to record session completion"
      [] c = "recordConceptMastery" -> "Failed to record concept mastery"

\* a caller starts one of the calls: its fetch is sent
GamificationCall(c) ==
    /\ events < MaxEvents
    /\ events' = events + 1
    /\ gcall.pending = NoVal
    /\ gcall' = [gcall EXCEPT !.pending = c, !.settled = "nothing"]
    /\ UNCHANGED <<appState, chatLocal, handler, sidebar, sent, appended, terminal,
                   st0, relay, deleted, advanced, onboarding, provider>>

\* the fetch answers and its body parses: the gamification fields of the
\* state are written and the data is returned
GamificationOk ==
    /\ gcall.pending # NoVal
    /\ gcall' = [pending |-> NoVal, gamificationData |-> "data", settled |-> "data"]
    /\ UNCHANGED <<appState, chatLocal, handler, sidebar, history, relay, deleted, provider,
                   advanced, onboarding>>

\* variant: the catch also ends the chat turn
GamificationFailEndsTurn ==
    /\ gcall.pending # NoVal
    /\ gcall' = [gcall EXCEPT !.pending = NoVal, !.settled = "undefined"]
    /\ error' = GamificationError(gcall.pending)
    /\ isLoading' = FALSE
    /\ isTyping' = FALSE
    /\ streamingMessage' = <<>>
    /\ st0' = Undisturbed({})
    /\ UNCHANGED <<user, currentSession, sessions, messages, chatLocal, handler,
                   sidebar, sent, appended, terminal, events, relay, deleted, provider,
                   advanced, onboarding>>

\* the fetch or the handling of its answer throws: the catch calls setError
\* and the call returns undefined
GamificationFail ==
    /\ gcall.pending # NoVal
    /\ gcall' = [gcall EXCEPT !.pending = NoVal, !.settled = "undefined"]
    /\ error' = GamificationError(gcall.pending)
    /\ isLoading' = FALSE
    /\ st0' = Undisturbed({})
    /\ UNCHANGED <<user, currentSession, sessions, messages, isTyping,
                   streamingMessage, chatLocal, handler, sidebar, sent, appended,
                   terminal, events, relay, deleted, advanced,
                   onboarding, provider>>

\* the chat with the gamification calls made at any time
NextGamification ==
    \/ Next
    \/ \E c \in GamificationCalls : GamificationCall(c)
    \/ GamificationOk
    \/ GamificationFail

SpecGamification == Init /\ [][NextGamification]_vars

\* ------------------------------------------------------------ UserOnboarding
maxRetries == 3

\* the ids the backend may put in a user it returns; NoVal: a body without id
UserIds == {"u1", "u2"}

besideOnboarding ==
    <<chatLocal, handler, sidebar, sent, appended, terminal, events, relay,
      deleted, gcall, advanced, provider>>

\* App renders UserOnboarding while there is no user, and the component
\* renders the wizard unless state.isLoading; a click while an earlier
\* handleComplete waits for its next attempt is left out
OnboardingShown ==
    /\ user = NoVal
    /\ ~isLoading
    /\ onboarding.pc \in {"form", "failed", "done"}

\* validateStep(currentStep): only the fields of that step are looked at
ValidateStep(o, currentStep) ==
    CASE currentStep = 1 -> o.identity
      [] currentStep = 2 -> o.goals
      [] currentStep = 3 -> o.subjects
      [] OTHER -> TRUE

\* verifiedUser?.id once the lookup has settled
VerifiedId(o) == IF o.lookup = "ok" THEN o.lookupUser ELSE o.createdUser

\* variant: the loop gives up one attempt early
OnboardingCatchGivesUpEarly(o) ==
    IF o.attempt + 1 >= maxRetries - 1
    THEN [o EXCEPT !.attempt = @ + 1, !.general = TRUE, !.pc = "failed"]
    ELSE [o EXCEPT !.attempt = @ + 1, !.pc = "backoff"]

\* the catch of the retry loop: attempt++, then the general error or the wait
OnboardingCatch(o) ==
    IF o.attempt + 1 >= maxRetries
    THEN [o EXCEPT !.attempt = @ + 1, !.general = TRUE, !.pc = "failed"]
    ELSE [o EXCEPT !.attempt = @ + 1, !.pc = "backoff"]

\* after the lookup: createSession is called with verifiedUser.id when the
\* form has a subject and there is an id, else the loop breaks
OnboardingProceed(o) ==
    IF o.userData.subjects /\ VerifiedId(o) # NoVal
    THEN [o EXCEPT !.pc = "createSession",
                   !.calls = Append(@, [user_id |-> VerifiedId(o),
                                         attempt |-> o.attempt,
                                         lookup |-> o.lookup,
                                         lookupUser |-> o.lookupUser,
                                         createdUser |-> o.createdUser])]
    ELSE [o EXCEPT !.pc = "done"]

\* a field of the step on display is edited: it becomes valid or invalid
OnboardingEdit ==
    /\ OnboardingShown
    /\ onboarding.step \in 1..3
    /\ onboarding' =
         CASE onboarding.step = 1 -> [onboarding EXCEPT !.identity = ~@]
           [] onboarding.step = 2 -> [onboarding EXCEPT !.goals = ~@]
           [] onboarding.step = 3 -> [onboarding EXCEPT !.subjects = ~@]
    /\ UNCHANGED <<appState, besideOnboarding, st0>>

\* handleNext: validateStep replaces the errors, a valid step moves on
OnboardingNext ==
    /\ OnboardingShown
    /\ onboarding.step < 4
    /\ onboarding' =
         IF ValidateStep(onboarding, onboarding.step)
         THEN [onboarding EXCEPT !.step = @ + 1, !.general = FALSE]
         ELSE [onboarding EXCEPT !.general = FALSE]
    /\ UNCHANGED <<appState, besideOnboarding, st0>>

\* Back: setStep(Math.max(1, step - 1)), nothing is validated
OnboardingBack ==
    /\ OnboardingShown
    /\ onboarding.step > 1
    /\ onboarding' = [onboarding EXCEPT !.step = @ - 1]
    /\ UNCHANGED <<appState, besideOnboarding, st0>>

\* Dismiss in the error display: setErrors({})
OnboardingDismiss ==
    /\ OnboardingShown
    /\ onboarding.general
    /\ onboarding' = [onboarding EXCEPT !.general = FALSE]
    /\ UNCHANGED <<appState, besideOnboarding, st0>>

\* handleComplete is clicked and validateStep(step) fails: it returns
OnboardingRejected ==
    /\ OnboardingShown
    /\ onboarding.step = 4 \/ onboarding.general
    /\ ~ValidateStep(onboarding, onboarding.step)
    /\ onboarding' = [onboarding EXCEPT !.general = FALSE]
    /\ UNCHANGED <<appState, besideOnboarding, st0>>

\* handleComplete is clicked, by Complete Setup on step 4 or by Retry Setup
\* in the error display on any step, and validateStep(step) passes:
\* setLoading(true), setErrors({}), createUser is called
OnboardingSubmit ==
    /\ OnboardingShown
    /\ onboarding.step = 4 \/ onboarding.general
    /\ ValidateStep(onboarding, onboarding.step)
    /\ onboarding' =
         [onboarding EXCEPT
            !.general = FALSE, !.pc = "createUser", !.attempt = 0,
            !.created = 0, !.createdUser = NoVal, !.lookup = "none",
            !.lookupUser = NoVal, !.calls = <<>>,
            !.userData = [identity |-> onboarding.identity,
                          goals |-> onboarding.goals,
                          subjects |-> onboarding.subjects]]
    /\ isLoading' = TRUE
    /\ st0' = Undisturbed({})
    /\ UNCHANGED <<user, currentSession, sessions, messages, error, isTyping,
                   streamingMessage, besideOnboarding>>

\* the user object of a createUser answer: one without an id is a user too
UserOf(id) == IF id = NoVal THEN "anonymous" ELSE id

\* variant: the endpoint creates the same user again
OnboardingUserCreatedAgain(id) ==
    /\ onboarding.pc = "createUser"
    /\ user' = UserOf(id)
    /\ isLoading' = FALSE
    /\ onboarding' = [onboarding EXCEPT !.createdUser = id, !.created = @ + 1,
                                        !.pc = "lookup"]
    /\ st0' = Undisturbed({})
    /\ UNCHANGED <<currentSession, sessions, messages, error, isTyping,
                   streamingMessage, besideOnboarding>>

\* createUser answers: setUser, setLoading(false), then the wait and the lookup;
\* the endpoint answers a second creation of the same user with an error
OnboardingUserCreated(id) ==
    /\ onboarding.pc = "createUser"
    /\ onboarding.created = 0
    /\ user' = UserOf(id)
    /\ isLoading' = FALSE
    /\ onboarding' = [onboarding EXCEPT !.createdUser = id, !.created = @ + 1,
                                        !.pc = "lookup"]
    /\ st0' = Undisturbed({})
    /\ UNCHANGED <<currentSession, sessions, messages, error, isTyping,
                   streamingMessage, besideOnboarding>>

\* createUser throws: setError, rethrown into the loop's catch
OnboardingCreateUserFails ==
    /\ onboarding.pc = "createUser"
    /\ error' = "network error"
    /\ isLoading' = FALSE
    /\ onboarding' = OnboardingCatch(onboarding)
    /\ st0' = Undisturbed({})
    /\ UNCHANGED <<user, currentSession, sessions, messages, isTyping,
                   streamingMessage, besideOnboarding>>

\* variant: the lookup's answer is not used
OnboardingLookupOkIgnored(id) ==
    /\ onboarding.pc = "lookup"
    /\ LET o == [onboarding EXCEPT !.lookup = "ok", !.lookupUser = id]
           p == OnboardingProceed([onboarding EXCEPT !.lookup = "failed"])
       IN  /\ onboarding' =
                IF p.pc = "createSession"
                THEN [p EXCEPT !.lookup = "ok", !.lookupUser = id,
                               !.calls[Len(p.calls)].lookup = "ok",
                               !.calls[Len(p.calls)].lookupUser = id]
                ELSE [p EXCEPT !.lookup = "ok", !.lookupUser = id]
           /\ isLoading' = (p.pc = "createSession")
    /\ st0' = Undisturbed({})
    /\ UNCHANGED <<user, currentSession, sessions, messages, error, isTyping,
                   streamingMessage, besideOnboarding>>

\* getUserByEmail answers with a user: it is the verified user
OnboardingLookupOk(id) ==
    /\ onboarding.pc = "lookup"
    /\ LET o == OnboardingProceed([onboarding EXCEPT !.lookup = "ok",
                                                     !.lookupUser = id])
       IN  /\ onboarding' = o
           /\ isLoading' = (o.pc = "createSession")
    /\ st0' = Undisturbed({})
    /\ UNCHANGED <<user, currentSession, sessions, messages, error, isTyping,
                   streamingMessage, besideOnboarding>>

\* getUserByEmail throws: setError, and the inner catch falls back to the
\* created user
OnboardingLookupFails ==
    /\ onboarding.pc = "lookup"
    /\ LET o == OnboardingProceed([onboarding EXCEPT !.lookup = "failed"])
       IN  /\ onboarding' = o
           /\ isLoading' = (o.pc = "createSession")
    /\ error' = "network error"
    /\ st0' = Undisturbed({})
    /\ UNCHANGED <<user, currentSession, sessions, messages, isTyping,
                   streamingMessage, besideOnboarding>>

\* createSession answers: addSession, setCurrentSession, setMessages([])
OnboardingSessionCreated(s) ==
    /\ onboarding.pc = "createSession"
    /\ sessions' = sessions \cup {s}
    /\ currentSession' = s
    /\ messages' = <<>>
    /\ isLoading' = FALSE
    /\ onboarding' = [onboarding EXCEPT !.pc = "done"]
    /\ st0' = Undisturbed({})
    /\ UNCHANGED <<user, error, isTyping, streamingMessage, besideOnboarding>>

\* createSession throws: setError, rethrown into the loop's catch
OnboardingCreateSessionFails ==
    /\ onboarding.pc = "createSession"
    /\ error' = "network error"
    /\ isLoading' = FALSE
    /\ onboarding' = OnboardingCatch(onboarding)
    /\ st0' = Undisturbed({})
    /\ UNCHANGED <<user, currentSession, sessions, messages, isTyping,
                   streamingMessage, besideOnboarding>>

\* the wait before the next attempt is over: setLoading(true), createUser
\* with the same userData
OnboardingRetry ==
    /\ onboarding.pc = "backoff"
    /\ onboarding' = [onboarding EXCEPT !.pc = "createUser", !.createdUser = NoVal,
                                        !.lookup = "none", !.lookupUser = NoVal]
    /\ isLoading' = TRUE
    /\ st0' = Undisturbed({})
    /\ UNCHANGED <<user, currentSession, sessions, messages, error, isTyping,
                   streamingMessage, besideOnboarding>>

\* the first visit: no saved user, no session
InitOnboarding == InitWith(NoVal, NoVal, {})

NextOnboarding ==
    \/ OnboardingEdit
    \/ OnboardingNext
    \/ OnboardingBack
    \/ OnboardingDismiss
    \/ OnboardingRejected
    \/ OnboardingSubmit
    \/ \E id \in UserIds \cup {NoVal} : OnboardingUserCreated(id)
    \/ OnboardingCreateUserFails
    \/ \E id \in UserIds \cup {NoVal} : OnboardingLookupOk(id)
    \/ OnboardingLookupFails
    \/ \E s \in SessionIds : OnboardingSessionCreated(s)
    \/ OnboardingCreateSessionFails
    \/ OnboardingRetry

SpecOnboarding == InitOnboarding /\ [][NextOnboarding]_vars

\* every call of handleComplete settles (axios has a timeout) and the timer
\* of the wait fires
OnboardingSettles ==
    \/ \E id \in UserIds \cup {NoVal} : OnboardingUserCreated(id)
    \/ OnboardingCreateUserFails
    \/ \E id \in UserIds \cup {NoVal} : OnboardingLookupOk(id)
    \/ OnboardingLookupFails
    \/ \E s \in SessionIds : OnboardingSessionCreated(s)
    \/ OnboardingCreateSessionFails
    \/ OnboardingRetry

SpecOnboardingLive ==
    InitOnboarding /\ [][NextOnboarding]_vars /\ WF_vars(OnboardingSettles)

\* --------------------------------------------------- AppProvider, persistence
\* the texts 'masterx_user' may hold when the page is opened: nothing, the
\* empty string, texts JSON.parse rejects, null, and users as JSON with and
\* without white space
SavedTexts ==
    {<<>>, <<"{">>, <<"u1">>, <<"null">>, <<"{", "}">>, <<"{", " ", "u1", "}">>,
     <<"{", "u2", "}">>}

\* JSON.parse(savedUser): white space between the tokens is skipped; ok is false when
\* it throws; null parses to no user
ParseUser(text) ==
    LET t == SelectSeq(text, LAMBDA x : x # " ")
    IN  IF t = <<"null">> THEN [ok |-> TRUE, value |-> NoVal]
        ELSE IF t = <<"{", "}">> THEN [ok |-> TRUE, value |-> "anonymous"]
        ELSE IF Len(t) = 3 /\ t[1] = "{" /\ t[3] = "}" /\ t[2] \in UserIds
             THEN [ok |-> TRUE, value |-> t[2]]
        ELSE [ok |-> FALSE, value |-> NoVal]

\* the page before AppProvider is mounted, with the item as it was left
ProviderUnmounted(saved) ==
    [mounted |-> FALSE, masterx_user |-> saved, effectUser |-> NoVal,
     found |-> saved, sessionsCall |-> "none"]

\* variant: the saving effect never removes the item
StoredAfterSaveKeeps(stored, u) == IF u = NoVal THEN stored ELSE StoredFor(u)

\* the saving effect for state.user u: setItem with its JSON, or removeItem
StoredAfterSave(stored, u) == StoredFor(u)

\* the loading effect: what getItem found, what JSON.parse made of it,
\* whether setUser was dispatched, whether loadUserSessions was called
\* (user.id throws for null), and the item after the effect
ProviderLoad(stored) ==
    LET has == stored # {} /\ stored # {<<>>}
        parsed == IF has THEN ParseUser(CHOOSE t \in stored : TRUE)
                  ELSE [ok |-> FALSE, value |-> NoVal]
        called == has /\ parsed.ok /\ parsed.value # NoVal
    IN  [setUser |-> has /\ parsed.ok, value |-> parsed.value, called |-> called,
         stored |-> IF has /\ ~called THEN {} ELSE stored]

\* the saving effect has not yet run for the present state.user
ProviderEffectPending == provider.mounted /\ provider.effectUser # user

\* AppProvider mounts: its two effects run after the first render, in which
\* state.user is the initial one; the dispatched setUser shows afterwards
ProviderMount ==
    /\ ~provider.mounted
    /\ \E load \in {ProviderLoad(provider.masterx_user)} :
         /\ user' = IF load.setUser THEN load.value ELSE user
         /\ provider' =
              [provider EXCEPT
                 !.mounted = TRUE,
                 !.masterx_user = StoredAfterSave(load.stored, user),
                 !.effectUser = user,
                 !.sessionsCall = IF load.called THEN "pending" ELSE "none"]
    /\ st0' = Undisturbed({})
    /\ UNCHANGED <<currentSession, sessions, messages, isLoading, error, isTyping,
                   streamingMessage, chatLocal, handler, sidebar, sent, appended,
                   terminal, events, relay, deleted, gcall, advanced, onboarding>>

\* state.user has changed: the saving effect runs
ProviderSaveEffect ==
    /\ ProviderEffectPending
    /\ provider' =
         [provider EXCEPT
            !.masterx_user = StoredAfterSave(provider.masterx_user, user),
            !.effectUser = user]
    /\ UNCHANGED <<appState, chatLocal, handler, sidebar, history, relay, deleted,
                   gcall, advanced, onboarding>>

\* getUserSessions answers the call of the mount: setSessions
ProviderSessionsLoaded(ss) ==
    /\ provider.sessionsCall = "pending"
    /\ sessions' = ss
    /\ provider' = [provider EXCEPT !.sessionsCall = "none"]
    /\ st0' = Undisturbed({})
    /\ UNCHANGED <<user, currentSession, messages, isLoading, error, isTyping,
                   streamingMessage, chatLocal, handler, sidebar, sent, appended,
                   terminal, events, relay, deleted, gcall, advanced, onboarding>>

\* getUserSessions throws: setError
ProviderSessionsFail ==
    /\ provider.sessionsCall = "pending"
    /\ error' = "network error"
    /\ provider' = [provider EXCEPT !.sessionsCall = "none"]
    /\ st0' = Undisturbed({})
    /\ UNCHANGED <<user, currentSession, sessions, messages, isLoading, isTyping,
                   streamingMessage, chatLocal, handler, sidebar, sent, appended,
                   terminal, events, relay, deleted, gcall, advanced, onboarding>>

\* the page is opened with any item, or none, left in localStorage
InitStorage ==
    \E saved \in {{}} \cup {{t} : t \in SavedTexts} :
        InitAll(NoVal, NoVal, {}, ProviderUnmounted(saved))

\* effects run before the next event is handled
NextStorage ==
    \/ ProviderMount
    \/ ProviderSaveEffect
    \/ \E ss \in SUBSET SessionIds : ProviderSessionsLoaded(ss)
    \/ ProviderSessionsFail
    \/ /\ provider.mounted
       /\ ~ProviderEffectPending
       /\ \/ NextOnboarding
          \/ Logout

SpecStorage == InitStorage /\ [][NextStorage]_vars

\* ---------------------------------------------------------------- properties
\* the reducer fields a stream writes
Shown == <<messages, streamingMessage, isTyping, error>>
Visible(st) == <<st.messages, st.streamingMessage, st.isTyping, st.error>>

\* the step is a read of request r's loop, and the value it returned
ReadBy(r) ==
    pc[r] = "reading" /\ events' = events /\ Len(body'[r]) < Len(body[r])
ValueRead(r) == SubSeq(body[r], 1, Len(body[r]) - Len(body'[r]))

\* the frames a read value carries: its `data: ` lines that parse
ParsedLines(value) ==
    SelectSeq(Split(value),
              LAMBDA l : StartsWithData(l) /\ JSONParse(Tail(l)).type # "invalid")
FramesOf(value) ==
    [i \in 1..Len(ParsedLines(value)) |-> JSONParse(Tail(ParsedLines(value)[i]))]

\* the lines of a read value without the `data: ` lines that do not parse
WellFormedLines(value) ==
    SelectSeq(Split(value),
              LAMBDA l : ~(StartsWithData(l) /\ JSONParse(Tail(l)).type = "invalid"))

\* the concatenation of the chunk contents of a frame sequence
RECURSIVE ChunkText(_)
ChunkText(fs) ==
    IF fs = <<>> THEN <<>>
    ELSE (IF Head(fs).type = "chunk" THEN Head(fs).content ELSE <<>>)
         \o ChunkText(Tail(fs))

\* N >= 0 chunk frames, then one frame of type t
ChunksThen(fs, t) ==
    /\ Len(fs) >= 1
    /\ fs[Len(fs)].type = t
    /\ \A i \in 1..(Len(fs) - 1) : fs[i].type = "chunk"

\* every frame of fs arriving whole, in a read of its own
RECURSIVE DeliverWhole(_, _, _, _)
DeliverWhole(st, fs, sid, premium) ==
    IF fs = <<>> THEN st
    ELSE DeliverWhole(ProcessRead(st, Encode(Head(fs)), sid, premium),
                      Tail(fs), sid, premium)

\* r's stream has read everything the server wrote
Consumed(r) == pc[r] = "reading" /\ body[r] = <<>>

\* C1: when the frames of a stream are N >= 0 chunk frames and then one
\* complete frame, and the consumer has read them all, the stream has appended
\* one mentor message whose text is the concatenation of the chunk contents.
C1_CompleteCarriesAllChunks ==
    \A r \in Requests :
        (Consumed(r) /\ ChunksThen(sent[r], "complete"))
        => /\ Len(appended[r]) = 1
           /\ appended[r][1].sender = "mentor"
           /\ appended[r][1].message = ChunkText(sent[r])

\* C2: however the body was cut into reads, once all of it is read the
\* messages, streamingMessage, isTyping and error are those obtained when
\* every frame arrives whole in a read of its own.
C2_CutsDoNotMatter ==
    \A r \in Requests :
        (Consumed(r) /\ st0[r].clean)
        => Shown = Visible(DeliverWhole(st0[r].st, sent[r], rsid[r], Premium(r)))

\* C3: a read leaves the state as if the `data: ` lines of its value that do
\* not parse were absent, and the stream goes on reading: no throw, no error
\* set because of them.
C3_MalformedSkipped ==
    [][\A r \in Requests :
         ReadBy(r) =>
           LET st == ProcessLines(StateOf(r), WellFormedLines(ValueRead(r)),
                                  rsid[r], Premium(r))
           IN  /\ Shown' = Visible(st)
               /\ fullResponse'[r] = st.fullResponse
               /\ pc'[r] = "reading"]_vars

C3_Witness ==
    \E r \in Requests :
        /\ Consumed(r)
        /\ Len(sent[r]) = 3
        /\ sent[r][1].type = "chunk"
        /\ sent[r][2] = MalformedFrame
        /\ sent[r][3].type = "complete"
        /\ Len(appended[r]) = 1
        /\ appended[r][1].message = sent[r][1].content
        /\ error = NoVal

\* C4: when chunk frames and then an error frame have been processed, the
\* partial text accumulated is still held in the UI state: as the streaming
\* message, or as the text of a mentor message.
C4_PartialKeptOnError ==
    \A r \in Requests :
        (/\ Consumed(r)
         /\ st0[r].clean
         /\ Len(sent[r]) >= 2
         /\ ChunksThen(sent[r], "error")
         /\ terminal[r]
         /\ fullResponse[r] # <<>>)
        => \/ streamingMessage = fullResponse[r]
           \/ \E i \in 1..Len(messages) :
                  /\ messages[i].sender = "mentor"
                  /\ messages[i].message = fullResponse[r]

\* C5: once a complete or error frame of a stream has been processed, a later
\* read of the same stream changes none of messages, streamingMessage,
\* isTyping and error.
C5_TerminalIsFinal ==
    [][\A r \in Requests : (ReadBy(r) /\ terminal[r]) => UNCHANGED Shown]_vars

\* C8: a read of a stream started for a session that is no longer the
\* current one, or after logout, changes none of messages, streamingMessage
\* and isTyping.
C8_SupersededNotApplied ==
    [][\A r \in Requests :
         (ReadBy(r) /\ (rsid[r] # currentSession \/ user = NoVal))
         => UNCHANGED <<messages, streamingMessage, isTyping>>]_vars

\* a request started by handleSendMessage with no terminal frame processed yet
InFlight(r) ==
    \/ pc[r] \in {"analyze", "post", "fetch"}
    \/ pc[r] = "reading" /\ ~terminal[r]

\* C9: at most one request started by handleSendMessage is in flight.
C9_OneInFlight == Cardinality({r \in Requests : InFlight(r)}) <= 1

\* C10: a read whose frames are chunk frames and then one complete frame
\* leaves isTyping false and streamingMessage empty, and appends to messages
\* exactly one mentor message: the accumulated text, the frame's suggestions
\* (the empty list when absent) and, in sendPremiumMessage, the frame's
\* next_steps and its mode (the chat's learning mode when absent).
C10_CompleteFinalizes ==
    [][\A r \in Requests :
         (ReadBy(r) /\ ChunksThen(FramesOf(ValueRead(r)), "complete"))
         => LET fs == FramesOf(ValueRead(r))
                f == fs[Len(fs)]
            IN  /\ isTyping' = FALSE
                /\ streamingMessage' = <<>>
                /\ messages' =
                     Append(messages,
                            Message("mentor", fullResponse[r] \o ChunkText(fs),
                                    rsid[r],
                                    IF f.suggestions = NoSeq THEN <<>>
                                    ELSE f.suggestions,
                                    IF Premium(r) THEN f.next_steps ELSE NoVal,
                                    IF ~Premium(r) THEN NoVal
                                    ELSE IF f.mode = NoVal THEN learningMode
                                    ELSE f.mode))]_vars

C10_Witness ==
    \E r \in Requests :
        /\ Consumed(r)
        /\ Premium(r)
        /\ Len(sent[r]) = 2
        /\ sent[r][1].type = "chunk"
        /\ sent[r][2] = CompleteFrame(SugVal, NextVal, ModeVal)
        /\ appended[r] =
             <<Message("mentor", sent[r][1].content, rsid[r], SugVal, NextVal,
                       ModeVal)>>
        /\ messages[Len(messages)] = appended[r][1]
        /\ ~isTyping
        /\ streamingMessage = <<>>

\* the terminal frames among the frames written to r's response
Terminals(r) == {i \in 1..Len(sent[r]) : sent[r][i].type \in {"complete", "error"}}

\* C6: the relay writes at most one terminal frame and nothing after it; the
\* frame is the complete frame exactly when upstream ended, an error frame
\* exactly when upstream failed, and there is none while upstream is open.
C6_OneTerminalLast ==
    \A r \in Requests :
        pc[r] = "reading"
        => /\ Cardinality(Terminals(r)) <= 1
           /\ Terminals(r) \subseteq {Len(sent[r])}
           /\ upstream[r] = "open" => Terminals(r) = {}
           /\ upstream[r] = "ended" =>
                  Terminals(r) # {} /\ sent[r][Len(sent[r])].type = "complete"
           /\ upstream[r] = "failed" =>
                  Terminals(r) # {} /\ sent[r][Len(sent[r])].type = "error"

C6_Witness ==
    \E r \in Requests :
        /\ pc[r] = "reading"
        /\ upstream[r] = "failed"
        /\ Len(sent[r]) = 3
        /\ sent[r][1].type = "chunk"
        /\ sent[r][2].type = "chunk"

\* C7: the text the consumer has accumulated, once it has read everything the
\* relay wrote, is the sequence of fragments upstream produced.
C7_UpstreamOrderKept ==
    \A r \in Requests : Consumed(r) => fullResponse[r] = produced[r]

\* the step is a throw inside request r's sendMessage / sendPremiumMessage
\* (fetch fails or reader.read() rejects), and the message it carries
ThrowBy(r) ==
    /\ pc[r] \in {"fetch", "reading"}
    /\ events' # events
    /\ pc'[r] # pc[r] \/ stage'[r] # stage[r]
ThrowMessage(r) ==
    IF pc[r] = "reading" THEN "network error"
    ELSE IF Premium(r) THEN "Failed to send premium message"
    ELSE "Failed to send message"

\* the step is a read of r whose frames are chunk frames and then an error frame
ErrorFrameBy(r) == ReadBy(r) /\ ChunksThen(FramesOf(ValueRead(r)), "error")

\* the Failed state: typing off, the message in error, no streaming text, the
\* messages as they were
FailedWith(msg) == <<messages, <<>>, FALSE, msg>>

C13_StreamEventuallyEnds ==
    \A r \in Requests :
        (pc[r] = "reading")
            ~> (pc[r] # "reading" \/ terminal[r] \/ events = MaxEvents)

\* C14: for a request whose session the store does not hold, no step opens the
\* upstream call or the stream, and no frame is written or fragment consumed
\* for it; the relay's answer to it is the rejection.
C14_RejectedBeforeUpstream ==
    [][\A r \in Requests :
         (pc[r] = "fetch" /\ rsid[r] \in deleted)
         => /\ upstream[r] # "open" => upstream'[r] # "open"
            /\ pc'[r] # "reading"
            /\ sent'[r] = <<>>
            /\ body'[r] = <<>>
            /\ produced'[r] = produced[r]
            /\ upstream'[r] # upstream[r] =>
                   upstream'[r] \in {"rejected", "canceled"}]_vars

C14_Witness ==
    \E r \in Requests :
        /\ rsid[r] \in deleted
        /\ upstream[r] = "rejected"
        /\ pc[r] = "done"
        /\ error = "Failed to send message"
        /\ sent[r] = <<>>

\* C15: once the user has logged out (the chat is unmounted), no stream of the
\* chat reads on: the request was aborted, so that the relay sees the
\* disconnect and cancels upstream.
C15_AbandonedStreamAborted ==
    [][user = NoVal => \A r \in Requests : ~ReadBy(r)]_vars

\* the step is a read of run k of AdvancedStreamingInterface, and its value
AdvancedReadBy(k) ==
    /\ advanced.run[k].pc = "reading"
    /\ advanced'.run[k].pc = "reading"
    /\ Len(advanced'.run[k].body) < Len(advanced.run[k].body)
AdvancedValueRead(k) ==
    SubSeq(advanced.run[k].body, 1,
           Len(advanced.run[k].body) - Len(advanced'.run[k].body))

\* C16: a read of AdvancedStreamingInterface whose frames are chunk frames and
\* then a complete frame hands onStreamComplete the concatenation of all the
\* chunk contents of the stream: the text then shown in streamContent.
C16_CompleteHandsAllChunks ==
    [][\A k \in AdvancedRuns :
         (/\ AdvancedReadBy(k)
          /\ advanced.run[k].live
          /\ ChunksThen(FramesOf(AdvancedValueRead(k)), "complete"))
         => /\ advanced'.run[k].completed =
                  <<advanced.streamContent
                      \o ChunkText(FramesOf(AdvancedValueRead(k)))>>
            /\ advanced'.run[k].completed = <<advanced'.streamContent>>]_vars

\* C17: a gamification call that fails settles with undefined, never with a
\* rejection, and its step writes only error (the call's own message) and
\* isLoading: messages, isTyping, streamingMessage and every stream's position
\* and accumulator are left as they were, whatever stream is in progress.
C17_GamificationFailureContained ==
    [][(gcall.pending # NoVal /\ gcall'.pending = NoVal)
       => /\ gcall'.settled \in {"data", "undefined"}
          /\ messages' = messages
          /\ isTyping' = isTyping
          /\ streamingMessage' = streamingMessage
          /\ handler' = handler
          /\ gcall'.settled = "undefined"
               => error' = GamificationError(gcall.pending)]_vars

\* a call has failed while a stream is reading with text on display
C17_Witness ==
    /\ gcall.settled = "undefined"
    /\ error \in {GamificationError(c) : c \in GamificationCalls}
    /\ isTyping
    /\ streamingMessage # <<>>
    /\ \E r \in Requests : pc[r] = "reading"

\* C18: every createSession call of onboarding carries a user id, and it is
\* the id getUserByEmail returned when the lookup succeeded and the id
\* createUser returned only when the lookup failed; an attempt in which
\* neither gave an id makes no call.
C18_SessionForVerifiedUser ==
    /\ \A i \in 1..Len(onboarding.calls) :
         LET c == onboarding.calls[i]
         IN  /\ c.user_id # NoVal
             /\ c.lookup \in {"ok", "failed"}
             /\ c.lookup = "ok" => c.user_id = c.lookupUser
             /\ c.lookup = "failed" => c.user_id = c.createdUser
    /\ onboarding.pc = "createSession"
         => /\ onboarding.calls # <<>>
            /\ onboarding.calls[Len(onboarding.calls)].attempt = onboarding.attempt
            /\ onboarding.calls[Len(onboarding.calls)].user_id = VerifiedId(onboarding)
    /\ (onboarding.pc = "done" /\ VerifiedId(onboarding) = NoVal)
         => \A i \in 1..Len(onboarding.calls) :
                onboarding.calls[i].attempt # onboarding.attempt

\* the first session was created for the user the lookup returned, who is
\* not the user createUser returned
C18_Witness ==
    /\ onboarding.pc = "done"
    /\ currentSession # NoVal
    /\ \E i \in 1..Len(onboarding.calls) :
         /\ onboarding.calls[i].lookup = "ok"
         /\ onboarding.calls[i].createdUser # NoVal
         /\ onboarding.calls[i].user_id # onboarding.calls[i].createdUser

\* r is the only request with a fetch pending or a body being read
OnlyStream(r) ==
    \A q \in Requests \ {r} : pc[q] \notin {"fetch", "reading"}

\* the frames of the value read are all chunk frames, at least one
OnlyChunks(value) ==
    /\ FramesOf(value) # <<>>
    /\ \A i \in 1..Len(FramesOf(value)) : FramesOf(value)[i].type = "chunk"

\* C19, the display of a stream nothing else has written beside, before its
\* terminal frame: what was shown when the body opened followed by the
\* accumulator fullResponse
DisplayIsAccumulator ==
    \A r \in Requests :
        (pc[r] = "reading" /\ ~terminal[r] /\ st0[r].clean)
            => streamingMessage = st0[r].st.streamingMessage \o fullResponse[r]

\* C19, the steps of a stream: the submit empties the display, it stays empty
\* while the only stream awaits its fetch, the opening of the body empties the
\* accumulator, and a read of chunk frames appends their contents to both
DisplayFollowsChunks ==
    \A r \in Requests :
        /\ (pc'[r] = "fetch" /\ (pc[r] # "fetch" \/ stage'[r] # stage[r]))
               => streamingMessage' = <<>>
        /\ (pc[r] = "fetch" /\ pc'[r] = "fetch" /\ stage'[r] = stage[r]
            /\ OnlyStream(r) /\ streamingMessage = <<>>)
               => streamingMessage' = <<>>
        /\ (pc[r] = "fetch" /\ pc'[r] = "reading")
               => fullResponse'[r] = <<>> /\ streamingMessage' = streamingMessage
        /\ (ReadBy(r) /\ ~terminal[r] /\ OnlyChunks(ValueRead(r))
            /\ streamingMessage = fullResponse[r])
               => /\ fullResponse'[r] =
                        fullResponse[r] \o ChunkText(FramesOf(ValueRead(r)))
                  /\ streamingMessage' = fullResponse'[r]

\* C19: while a single stream is in the Streaming state, streamingMessage is
\* the concatenation of the chunk contents processed so far, equal to the
\* accumulator fullResponse, starting from empty at the submit.
C19_DisplayIsChunksSoFar == []DisplayIsAccumulator /\ [][DisplayFollowsChunks]_vars

\* two chunks of the only stream are on display, the stream still open
C19_Witness ==
    \E r \in Requests :
        /\ pc[r] = "reading" /\ ~terminal[r] /\ st0[r].clean
        /\ OnlyStream(r)
        /\ st0[r].st.streamingMessage = <<>>
        /\ Len(fullResponse[r]) >= 2
        /\ streamingMessage = fullResponse[r]

\* two consumer states agree on isTyping, streamingMessage, error and the
\* accumulator, and on the sender, text and suggestions of every message
SameButExtras(a, b) ==
    /\ a.isTyping = b.isTyping
    /\ a.streamingMessage = b.streamingMessage
    /\ a.error = b.error
    /\ a.fullResponse = b.fullResponse
    /\ Len(a.messages) = Len(b.messages)
    /\ \A i \in 1..Len(a.messages) :
         /\ a.messages[i].sender = b.messages[i].sender
         /\ a.messages[i].message = b.messages[i].message
         /\ a.messages[i].session_id = b.messages[i].session_id
         /\ a.messages[i].suggestions = b.messages[i].suggestions

AdvancedInFlight(k) == advanced.run[k].pc \in {"session", "chat", "reading"}

\* C21: AdvancedStreamingInterface has at most one run in flight, and a read
\* of a run that is not the one started last leaves streamContent and
\* isStreaming as they were.
C21_EarlierStreamStopped ==
    [][/\ Cardinality({k \in AdvancedRuns : AdvancedInFlight(k)}') <= 1
       /\ \A k \in AdvancedRuns :
            (AdvancedReadBy(k) /\ k < advanced.runs)
              => /\ advanced'.streamContent = advanced.streamContent
                 /\ advanced'.isStreaming = advanced.isStreaming]_vars

\* C22: whenever sendMessage or sendPremiumMessage finishes, by returning or
\* by throwing, isTyping is false and streamingMessage is empty.
C22_FinishedNotTyping ==
    [][\A r \in Requests :
         (pc[r] \in {"fetch", "reading"} /\ pc'[r] = "done")
            => ~isTyping' /\ streamingMessage' = <<>>]_vars

\* the 'user' messages in state.messages
UserCopies == Cardinality({i \in 1..Len(messages) : messages[i].sender = "user"})

\* C23: with messages only appended to, the user messages are never more
\* than the submits accepted into a request, and once every request has
\* finished there is exactly one user message for each.
C23_UserTextOnce ==
    /\ UserCopies <= Cardinality({r \in Requests : pc[r] # "idle"})
    /\ (\A r \in Requests : pc[r] \in {"idle", "done"})
          => UserCopies = Cardinality({r \in Requests : pc[r] = "done"})

\* a chat request carrying the text has been made
RequestCarrying(text) ==
    \/ \E r \in Requests : pc[r] \in {"post", "fetch", "reading"} /\ rmsg[r] = text
    \/ \E k \in AdvancedRuns :
          /\ advanced.run[k].pc \in {"chat", "reading"}
          /\ Trim(advanced.run[k].message) = text

\* a call is pending after which the chat request carrying the text is made
RequestOnItsWay(text) ==
    \/ \E r \in Requests : pc[r] = "analyze" /\ rmsg[r] = text
    \/ \E k \in AdvancedRuns :
          /\ advanced.run[k].pc = "session"
          /\ Trim(advanced.run[k].message) = text

\* C24: when a submit empties the input, a chat request carrying the text has
\* been made or is on its way, in every combination of the two switches, and
\* a request on its way is eventually made unless its preceding call fails.
C24_SubmittedTextIsSent ==
    /\ [][(Trim(inputMessage) # <<>> /\ inputMessage' = <<>>)
          => \E text \in {Trim(inputMessage)} :
                 RequestCarrying(text)' \/ RequestOnItsWay(text)']_vars
    /\ \A r \in Requests : (pc[r] = "analyze") ~> (pc[r] = "post")
    /\ \A k \in AdvancedRuns :
          (advanced.run[k].pc = "session")
              ~> (advanced.run[k].pc \in {"chat", "ended"})

\* C25: once no loadSessionMessages call is pending, every message in
\* state.messages belongs to state.currentSession.
C25_MessagesOfCurrentSession ==
    loads = {}
      => \A i \in 1..Len(messages) : messages[i].session_id = currentSession

\* C26: createUser is called only with a form whose name and email, learning
\* goals and subjects are all valid.
C26_CreateUserWithValidForm ==
    onboarding.pc = "createUser"
      => /\ onboarding.userData.identity
         /\ onboarding.userData.goals
         /\ onboarding.userData.subjects

\* handleComplete is between its click and its return
OnboardingRunning ==
    onboarding.pc \in {"createUser", "lookup", "createSession", "backoff"}

\* C27: handleComplete returns after at most 3 attempts: a run that has begun
\* comes to its end; it makes no attempt past the third; an attempt whose
\* createSession answers ends the run; the general error is set in the step
\* in which the third attempt fails and in no other step of the run;
\* isLoading is false once the run has returned.
C27_CompleteWithinThreeAttempts ==
    /\ OnboardingRunning ~> (onboarding.pc \in {"done", "failed"})
    /\ [](onboarding.attempt <= maxRetries)
    /\ []((onboarding.pc \in {"done", "failed"}) => ~isLoading)
    /\ []((onboarding.pc = "failed") => onboarding.attempt = maxRetries)
    /\ [][(onboarding.pc = "createSession" /\ onboarding'.attempt = onboarding.attempt)
             => onboarding'.pc = "done"]_vars
    /\ [][OnboardingRunning
             => (onboarding'.general
                   <=> (onboarding.attempt = maxRetries - 1
                          /\ onboarding'.attempt = maxRetries))]_vars

\* a run whose three attempts all failed has returned, the wizard shows the
\* general error
C27_Witness ==
    /\ onboarding.pc = "failed"
    /\ onboarding.attempt = maxRetries
    /\ onboarding.general
    /\ user = NoVal
    /\ ~isLoading

====
